---------------------------- MODULE Spec2Model ----------------------------
(***************************************************************************)
(* A model of src/ragtest/build_neo4j.py: TCMNeo4jBuilder (the label       *)
(* mapping, the schema step, the entity and relationship batch loaders,    *)
(* the statistics) and main(); and of Neo4jCleaner.clean_entities of       *)
(* src/ragtest/clean_neo4j_entities.py.                                    *)
(*                                                                         *)
(* Strings are sequences of characters; a character is a one-letter TLA+   *)
(* string.  The graph store is the pair (nodes, rels) together with the    *)
(* constraints and indexes it holds; a store call either succeeds or       *)
(* raises, chosen nondeterministically within a budget of MaxFaults        *)
(* rejections.                                                             *)
(*                                                                         *)
(* Spec is main() on tables with a type and a name column; SpecQuoted,     *)
(* SpecRow and SpecRerun are main() on tables with quoted types, on tables *)
(* with the description and numeric columns, and run twice against one     *)
(* store; SpecBatch and SpecAbsent are main() on tables of several batches *)
(* and on tables with absent names; SpecBuilder is the builder called in   *)
(* another order than main's; SpecMap, SpecLabel and SpecRemap are the     *)
(* label mapping alone; SpecClean is the cleaner.                          *)
(***************************************************************************)
EXTENDS Naturals, Sequences, FiniteSets, TLC

(***************************************************************************)
(* Bounds of the model.                                                    *)
(***************************************************************************)
\* longest raw type string drawn for the label-mapping specifications
MaxLen == 3
\* most distinct raw type values handed to generate_type_mappings
MaxTypes == 2
\* most rows of the entity table
MaxEntities == 3
\* most rows of the relationship table
MaxRels == 1
\* rows per batch (batch_size, 1000 in the source, scaled down)
BatchSize == 2
\* most store calls the store rejects in one run
MaxFaults == 1
\* characters kept of an entity description (1000 in the source, scaled down)
EntityDescriptionLimit == 2
\* characters kept of a relationship description (500 in the source, scaled
\* down)
RelationshipDescriptionLimit == 1
\* most runs of main() against one store
MaxRuns == 2
\* most schema statements the store rejects in the runs against one store
MaxSchemaFaults == 2

(***************************************************************************)
(* Characters.                                                             *)
(***************************************************************************)
DQ == "\""

\* what str.strip() strips and what \s matches
Whitespace == {" ", "\t", "\n", "\r", "\f"}

\* the character class of the re.sub in _generate_neo4j_label, without its \s;
\* the full-width brackets and CJK punctuation of the class, and the backtick,
\* are named because a TLA+ string cannot hold them
LabelSpecials ==
    {"FULLWIDTH(", "FULLWIDTH)", "(", ")", "[", "]", "{", "}",
     "FULLWIDTH,", "IDEOGRAPHIC.", "IDEOGRAPHIC,", "/", "\\", "<", ">", "|",
     "*", "?", ":", DQ, "'", "BACKTICK", "~", "!", "@", "#", "$", "%", "^",
     "&", "+", "="}

Digits == {"0", "1", "2", "3", "4", "5", "6", "7", "8", "9"}

(***************************************************************************)
(* Python values and string methods.                                       *)
(***************************************************************************)
\* a missing cell of a table (float nan / None): pd.isna is true of it
NaN == <<"NaN">>

IsNa(v) == v = NaN

\* str(v): the text of a cell; str(float('nan')) is 'nan'
Str(v) == IF IsNa(v) THEN <<"n", "a", "n">> ELSE v

RECURSIVE LStrip(_, _)
LStrip(s, cs) ==
    IF s # <<>> /\ Head(s) \in cs THEN LStrip(Tail(s), cs) ELSE s

RECURSIVE RStrip(_, _)
RStrip(s, cs) ==
    IF s # <<>> /\ s[Len(s)] \in cs
    THEN RStrip(SubSeq(s, 1, Len(s) - 1), cs)
    ELSE s

\* s.strip() with cs = Whitespace, s.strip('"') with cs = {DQ}
PyStrip(s, cs) == RStrip(LStrip(s, cs), cs)

\* str(v).strip().strip('"')
CleanType(v) == PyStrip(PyStrip(Str(v), Whitespace), {DQ})

\* dict: d[k] = v
Put(d, k, v) == [x \in DOMAIN d \cup {k} |-> IF x = k THEN v ELSE d[x]]

EmptyDict == [x \in {} |-> <<>>]

\* the strings over chars of length n at most
StringsUpTo(chars, n) == UNION {[1..k -> chars] : k \in 0..n}

\* row.get(col) of a table row: None (missing, as NaN is) without the column
RowGet(row, col, missing) == IF col \in DOMAIN row THEN row[col] ELSE missing

\* s[:n]
Truncate(s, n) == SubSeq(s, 1, IF n < Len(s) THEN n ELSE Len(s))

\* the cells of a numeric column: missing, a number, or a text
NumNaN == [kind |-> "nan", val |-> 0]
Num(n) == [kind |-> "num", val |-> n]
Text(s) == [kind |-> "str", val |-> s]

\* a text int() and float() both accept: digits between optional blanks (of
\* the texts drawn here none carries a sign, a point or an exponent)
IsDecimal(s) ==
    LET t == PyStrip(s, Whitespace)
    IN  t # <<>> /\ \A k \in DOMAIN t : t[k] \in Digits

DigitValue(c) ==
    CASE c = "0" -> 0 [] c = "1" -> 1 [] c = "2" -> 2 [] c = "3" -> 3
      [] c = "4" -> 4 [] c = "5" -> 5 [] c = "6" -> 6 [] c = "7" -> 7
      [] c = "8" -> 8 [] c = "9" -> 9

RECURSIVE DecimalValue(_)
DecimalValue(t) ==
    IF t = <<>> THEN 0
    ELSE 10 * DecimalValue(SubSeq(t, 1, Len(t) - 1)) + DigitValue(t[Len(t)])

\* int(v) and float(v) raise ValueError
ConversionRaises(v) == v.kind = "str" /\ ~IsDecimal(v.val)

\* int(v) where it does not raise
IntOf(v) ==
    IF v.kind = "num" THEN v.val
    ELSE IF v.kind = "str" /\ IsDecimal(v.val)
         THEN DecimalValue(PyStrip(v.val, Whitespace))
         ELSE 0

\* int(row.get(col, 0)) if pd.notna(row.get(col)) else 0, and the same
\* expression with float and 1.0: its value, and whether it raises
NumericAttribute(row, col, default) ==
    LET v == RowGet(row, col, NumNaN)
    IN  IF v.kind = "nan" THEN default ELSE IntOf(v)

AttributeRaises(row, col) ==
    LET v == RowGet(row, col, NumNaN)
    IN  v.kind # "nan" /\ ConversionRaises(v)

\* a description kept whole
DescriptionWhole(row, limit) ==
    LET v == RowGet(row, "description", NaN)
    IN  IF ~IsNa(v) THEN Str(v) ELSE <<>>

\* str(row.get('description', ''))[:limit] if pd.notna(...) else ''
Description(row, limit) ==
    LET v == RowGet(row, "description", NaN)
    IN  IF ~IsNa(v) THEN Truncate(Str(v), limit) ELSE <<>>

(***************************************************************************)
(* The label mapping.                                                      *)
(***************************************************************************)
UnknownLabel == <<"U", "n", "k", "n", "o", "w", "n">>
EntityLabel == <<"E", "n", "t", "i", "t", "y">>

\* the characters re.sub(r'[...\s]', '', chinese_type) removes
RemovedByLabelRegex(c) == c \in LabelSpecials \/ c \in Whitespace

\* _generate_neo4j_label
generate_neo4j_label(chinese_type) ==
    LET clean_name ==
            SelectSeq(chinese_type, LAMBDA c : ~RemovedByLabelRegex(c))
    IN  IF clean_name # <<>> THEN clean_name ELSE UnknownLabel

\* one iteration of the loop of generate_type_mappings
MapOneType(m, entity_type) ==
    IF IsNa(entity_type) \/ PyStrip(Str(entity_type), Whitespace) = <<>>
    THEN Put(m, <<>>, UnknownLabel)
    ELSE LET clean_type == CleanType(entity_type)
         IN  IF clean_type # <<>>
             THEN Put(m, clean_type, generate_neo4j_label(clean_type))
             ELSE m

RECURSIVE MapTypes(_, _)
MapTypes(m, entity_types) ==
    IF entity_types = <<>>
    THEN m
    ELSE MapTypes(MapOneType(m, Head(entity_types)), Tail(entity_types))

\* generate_type_mappings: the mapping is cleared, then filled
generate_type_mappings(entity_types) == MapTypes(EmptyDict, entity_types)

\* a mapping that is not cleared
KeptMapping(m) == m

\* line 181: self.type_to_label.clear()
ClearedMapping(m) == EmptyDict

\* generate_type_mappings on a builder whose mapping is m
regenerate_type_mappings(m, entity_types) ==
    MapTypes(ClearedMapping(m), entity_types)

\* a lookup without the default of line 228
get_entity_label_no_default(m, entity_type) ==
    IF entity_type = <<>> \/ IsNa(entity_type)
       \/ PyStrip(Str(entity_type), Whitespace) = <<>>
    THEN UnknownLabel
    ELSE LET clean_type == CleanType(entity_type)
         IN  IF clean_type \in DOMAIN m THEN m[clean_type] ELSE UnknownLabel

\* get_entity_label under the mapping m
get_entity_label(m, entity_type) ==
    IF entity_type = <<>> \/ IsNa(entity_type)
       \/ PyStrip(Str(entity_type), Whitespace) = <<>>
    THEN UnknownLabel
    ELSE LET clean_type == CleanType(entity_type)
         IN  IF clean_type \in DOMAIN m THEN m[clean_type] ELSE EntityLabel

(***************************************************************************)
(* State.                                                                  *)
(***************************************************************************)
VARIABLES
    pc,                 \* where main() is
    driver,             \* self.driver: "none", "open" or "closed"
    temp_driver,        \* list_databases' temp_driver: "none", "open", "closed"
    type_to_label,      \* self.type_to_label
    entities_df,        \* the entity table load_entities returned
    total_relationships,\* len(relationships_df)
    relationships_data, \* the relationships_data list of the last batch
    rel_batch,          \* the rows of the last batch of create_relationships
    bi,                 \* the loop variable i of the running batch loop
    created_count,      \* create_entities' created_count
    rel_created_count,  \* create_relationships' created_count
    failed_batches,     \* batch numbers of the failure lines of create_entities
    rel_failed_batches, \* batch numbers of the failure lines of create_relationships
    nodes,              \* the store: its nodes, in creation order
    rels,               \* the store: its RELATED_TO relationships
    schema,             \* the store: its constraints and indexes
    schema_issued,      \* the schema statements sent to the store so far
    sent,               \* the clear, node and relationship statements sent
    faults,             \* store calls rejected so far
    stats,              \* what get_database_statistics returned
    schema_failures,    \* the statements of the warning lines of the schema step
    run,                \* the number of this run of main() against the store
    entity_types,       \* the argument of generate_type_mappings
    mpc,                \* label-mapping specifications: "init", "mapped", ...
    queried,            \* the arguments of the last get_entity_label calls
    returned,           \* what those calls returned, in the same order
    cpc,                \* where Neo4jCleaner.clean_entities is
    store,              \* the store the cleaner works on: its nodes
    store_before,       \* that store when clean_entities was called
    labels_to_process,  \* clean_entities' labels_to_process
    confirm,            \* clean_entities' confirm
    ci,                 \* how many items of labels_to_process were handled
    deleted_count       \* clean_entities' deleted_count

runVars ==
    <<pc, driver, temp_driver, entities_df, total_relationships,
      relationships_data, bi, created_count, rel_created_count,
      failed_batches, rel_failed_batches, nodes, rels, schema,
      schema_issued, sent, faults, stats, schema_failures, run, rel_batch>>

mapVars == <<entity_types, mpc, queried, returned>>

cleanVars ==
    <<cpc, store, store_before, labels_to_process, confirm, ci, deleted_count>>

vars == <<runVars, type_to_label, mapVars, cleanVars>>

Min(a, b) == IF a < b THEN a ELSE b

(***************************************************************************)
(* The store.                                                              *)
(***************************************************************************)
\* positions of the nodes MATCH (n {name: name}) finds, whatever their label
MatchByName(name) == {p \in DOMAIN nodes : nodes[p].name = name}

\* MATCH (n) DETACH DELETE n
ClearedNodes == <<>>

(***************************************************************************)
(* create_entities.                                                        *)
(***************************************************************************)
\* line 248: the type handed to get_entity_label and stored on the node
EntityType(row) == IF ~IsNa(row.type) THEN CleanType(row.type) ELSE <<>>

\* lines 249-258: the node a row becomes (id is the row's number in the table)
EntityNode(idx, row) ==
    [id    |-> idx,
     label |-> get_entity_label(type_to_label, EntityType(row)),
     name  |-> CleanType(row.title),
     type  |-> EntityType(row),
     description |-> Description(row, EntityDescriptionLimit),
     human_readable_id |-> NumericAttribute(row, "human_readable_id", 0),
     degree |-> NumericAttribute(row, "degree", 0)]

\* lines 256-257: int() raises on the row, outside the try of line 266
EntityRaises(row) ==
    AttributeRaises(row, "human_readable_id") \/ AttributeRaises(row, "degree")

\* lines 246-262: building entities_by_label of the batch after row i raises
BatchRaises(i) ==
    \E idx \in (i + 1)..Min(i + BatchSize, Len(entities_df)) :
        EntityRaises(entities_df[idx])

\* lines 260-262: entities_by_label, a dict in insertion order
AddToGroups(groups, e) ==
    IF \E k \in DOMAIN groups : groups[k].label = e.label
    THEN [k \in DOMAIN groups |->
            IF groups[k].label = e.label
            THEN [groups[k] EXCEPT !.entities = Append(@, e)]
            ELSE groups[k]]
    ELSE Append(groups, [label |-> e.label, entities |-> <<e>>])

RECURSIVE GroupRows(_, _, _)
GroupRows(groups, from, to) ==
    IF from > to
    THEN groups
    ELSE GroupRows(AddToGroups(groups, EntityNode(from, entities_df[from])),
                   from + 1, to)

\* entities_by_label of the batch that starts after row i
EntitiesByLabel(i) ==
    GroupRows(<<>>, i + 1, Min(i + BatchSize, Len(entities_df)))

\* the nodes of the first n groups, in the order the statements create them
RECURSIVE GroupNodes(_, _)
GroupNodes(groups, n) ==
    IF n = 0 THEN <<>>
    ELSE GroupNodes(groups, n - 1) \o groups[n].entities

RECURSIVE GroupSizes(_, _)
GroupSizes(groups, n) ==
    IF n = 0 THEN 0 ELSE GroupSizes(groups, n - 1) + Len(groups[n].entities)

\* lines 265-286: created_count after a batch whose group f was rejected
\* (f = 0: none was); batch_created is dropped when the batch raises
CreatedAfterBatch(count, groups, f) ==
    IF f = 0 THEN count + GroupSizes(groups, Len(groups)) ELSE count

\* a loop that takes a rejected batch again
NextBatchStartRetry(i, f) == IF f > 0 THEN i ELSE i + BatchSize

\* a loop that a rejected batch ends
NextBatchStartAbort(i, f) == IF f > 0 THEN Len(entities_df) ELSE i + BatchSize

\* lines 242, 285-286: the loop goes on with the next batch, failed or not
NextBatchStart(i, f) == i + BatchSize

\* the statements of one batch: group f (if any) is rejected and ends the batch
EntityStatements(i, groups, f) ==
    [k \in 1..(IF f = 0 THEN Len(groups) ELSE f) |->
        [phase |-> "entity", batch |-> (i \div BatchSize) + 1,
         label |-> groups[k].label, ok |-> k # f]]

(***************************************************************************)
(* create_relationships.                                                   *)
(***************************************************************************)
\* lines 336-343: one element of relationships_data (id is the row's number)
RelationshipData(idx, row) ==
    [id          |-> idx,
     source_name |-> CleanType(row.source),
     target_name |-> CleanType(row.target),
     description |-> Description(row, RelationshipDescriptionLimit),
     weight      |-> NumericAttribute(row, "weight", 1),
     rank        |-> NumericAttribute(row, "rank", 0)]

\* lines 341-342: float() or int() raises on the row, outside the try of
\* line 347
RelationshipRaises(row) ==
    AttributeRaises(row, "weight") \/ AttributeRaises(row, "rank")

\* lines 348-357: UNWIND ... MATCH (source) MATCH (target) CREATE: one
\* relationship for every pair of matching nodes of every row
CreatedRelationships(data) ==
    UNION {{[id |-> data[k].id, source |-> s, target |-> t,
             description |-> data[k].description,
             weight |-> data[k].weight, rank |-> data[k].rank] :
                s \in MatchByName(data[k].source_name),
                t \in MatchByName(data[k].target_name)} : k \in DOMAIN data}

\* line 359: created_count after a batch the store accepted
RelCreatedAfterBatch(count, data) == count + Len(data)

(***************************************************************************)
(* create_constraints_and_indexes.                                         *)
(***************************************************************************)
\* lines 103-104
SchemaLabels == {type_to_label[k] : k \in DOMAIN type_to_label} \cup {EntityLabel}

\* str.lower(), on the letters of the model's strings
UpperCase ==
    <<"A", "B", "C", "D", "E", "F", "G", "H", "I", "J", "K", "L", "M", "N",
      "O", "P", "Q", "R", "S", "T", "U", "V", "W", "X", "Y", "Z">>

LowerCase ==
    <<"a", "b", "c", "d", "e", "f", "g", "h", "i", "j", "k", "l", "m", "n",
      "o", "p", "q", "r", "s", "t", "u", "v", "w", "x", "y", "z">>

Lower(s) ==
    [k \in DOMAIN s |->
        IF \E n \in DOMAIN UpperCase : UpperCase[n] = s[k]
        THEN LowerCase[CHOOSE n \in DOMAIN UpperCase : UpperCase[n] = s[k]]
        ELSE s[k]]

\* the end of the name of a label's constraint or index
SchemaSuffix(kd) ==
    CASE kd = "id_unique" -> <<"_", "i", "d", "_", "u", "n", "i", "q", "u", "e">>
      [] kd = "name_index" -> <<"_", "n", "a", "m", "e", "_", "i", "n", "d", "e", "x">>
      [] kd = "type_index" -> <<"_", "t", "y", "p", "e", "_", "i", "n", "d", "e", "x">>

\* one CREATE CONSTRAINT or CREATE INDEX statement of lines 110-112
LabelStatement(kd, l, guarded) ==
    [kind |-> kd, label |-> l, name |-> Lower(l) \o SchemaSuffix(kd),
     if_not_exists |-> guarded]

\* the statements without their IF NOT EXISTS
LabelStatementsUnguarded(labels) ==
    {LabelStatement(kd, l, FALSE) :
        kd \in {"id_unique", "name_index", "type_index"}, l \in labels}

\* lines 109-114: three statements for each label
LabelStatements(labels) ==
    {LabelStatement(kd, l, TRUE) :
        kd \in {"id_unique", "name_index", "type_index"}, l \in labels}

\* lines 117-120: the two relationship indexes
RelationshipStatements ==
    {[kind |-> "relationship_weight_index", label |-> <<>>,
      name |-> 
        <<"r", "e", "l", "a", "t", "i", "o", "n", "s", "h", "i", "p", "_", "w", "e", "i", "g", "h", "t", "_", "i", "n", "d", "e", "x">>,
      if_not_exists |-> TRUE],
     [kind |-> "relationship_rank_index", label |-> <<>>,
      name |-> 
        <<"r", "e", "l", "a", "t", "i", "o", "n", "s", "h", "i", "p", "_", "r", "a", "n", "k", "_", "i", "n", "d", "e", "x">>,
      if_not_exists |-> TRUE]}

SchemaStatements == LabelStatements(SchemaLabels) \cup RelationshipStatements

\* a loop over the statements that the first rejected statement ends
SentUntilRejected(issued, rejected) ==
    IF rejected = {}
    THEN issued = SchemaStatements
    ELSE Cardinality(issued \cap rejected) = 1

\* lines 122-128: the statements session.run is called with when the store
\* rejects those of rejected: the loop goes on after a rejected statement
SentStatements(issued, rejected) == issued = SchemaStatements

\* the store: the constraint or index a statement creates
SchemaItem(s) == [kind |-> s.kind, label |-> s.label, name |-> s.name]

\* the store: statement s names, or describes, the item e
SameSchemaItem(s, e) ==
    s.name = e.name \/ (s.kind = e.kind /\ s.label = e.label)

ItemExists(s, items) == \E e \in items : SameSchemaItem(s, e)

\* the store: added are the statements of offered that create an item, when
\* they arrive in some order: none of them finds its item, every other does
StoreCreates(items, offered, added) ==
    /\ added \subseteq offered
    /\ \A s \in added :
          /\ ~ItemExists(s, items)
          /\ \A t \in added \ {s} : ~SameSchemaItem(s, SchemaItem(t))
    /\ \A s \in offered \ added :
          ItemExists(s, items \cup {SchemaItem(t) : t \in added})

\* the store: the sets of statements StoreCreates can hold of: those that
\* meet no item and no other statement, with any of those that meet only
\* another statement
CreationChoices(items, offered) ==
    LET free == {s \in offered : ~ItemExists(s, items)}
        alone == {s \in free :
                    \A t \in offered \ {s} : ~SameSchemaItem(s, SchemaItem(t))}
    IN  {alone \cup c : c \in SUBSET (free \ alone)}

\* the store: a statement that finds its item does nothing with
\* IF NOT EXISTS and raises without it
RaisesOnExisting(offered, added) ==
    {s \in offered \ added : ~s.if_not_exists}

(***************************************************************************)
(* get_database_statistics.  The result is kept as the dictionary the      *)
(* function returns plus the mark reported; 'average' is held in           *)
(* hundredths, as round(avg, 2) leaves it.                                 *)
(***************************************************************************)
\* CALL db.labels(): the labels in use, by a node or by a constraint or an
\* index, those of the nodes first
RECURSIVE NodeLabelList(_)
NodeLabelList(ns) ==
    IF ns = <<>> THEN <<>>
    ELSE LET before == NodeLabelList(SubSeq(ns, 1, Len(ns) - 1))
             l == ns[Len(ns)].label
         IN  IF \E k \in DOMAIN before : before[k] = l
             THEN before ELSE Append(before, l)

RECURSIVE SetToList(_)
SetToList(S) ==
    IF S = {} THEN <<>>
    ELSE LET x == CHOOSE y \in S : TRUE IN <<x>> \o SetToList(S \ {x})

StoreLabels(ns, items) ==
    LET used == NodeLabelList(ns)
    IN  used \o SetToList({e.label : e \in {i \in items : i.label # <<>>}}
                              \ {used[k] : k \in DOMAIN used})

\* MATCH (n:label) RETURN count(n)
LabelCount(ns, l) == Cardinality({p \in DOMAIN ns : ns[p].label = l})

\* a per-label list that keeps every label of the store
AnyLabelCounted(count) == TRUE

\* line 440: if record and record["count"] > 0
LabelCounted(count) == count > 0

\* lines 437-441: the (label, count) pairs in the order of the labels
RECURSIVE CountLabels(_, _)
CountLabels(ns, labels) ==
    IF labels = <<>> THEN <<>>
    ELSE LET l == labels[1]
             rest == CountLabels(ns, SubSeq(labels, 2, Len(labels)))
         IN  IF LabelCounted(LabelCount(ns, l))
             THEN <<<<l, LabelCount(ns, l)>>>> \o rest
             ELSE rest

\* line 444: list.sort(key=count, reverse=True), a stable sort
RECURSIVE SortByCount(_)
SortByCount(pairs) ==
    IF pairs = <<>> THEN <<>>
    ELSE LET first == CHOOSE k \in DOMAIN pairs :
                          /\ \A j \in DOMAIN pairs : pairs[j][2] <= pairs[k][2]
                          /\ \A j \in 1..(k - 1) : pairs[j][2] < pairs[k][2]
         IN  <<pairs[first]>> \o
             SortByCount(SubSeq(pairs, 1, first - 1)
                           \o SubSeq(pairs, first + 1, Len(pairs)))

RECURSIVE DegreeSum(_)
DegreeSum(ns) ==
    IF ns = <<>> THEN 0
    ELSE DegreeSum(SubSeq(ns, 1, Len(ns) - 1)) + ns[Len(ns)].degree

\* lines 447-450: avg, max and min of n.degree, null over no node; avg in
\* hundredths, rounded
Aggregate(ns, which) ==
    IF ns = <<>> THEN [kind |-> "null", val |-> 0]
    ELSE LET degrees == {ns[p].degree : p \in DOMAIN ns}
         IN  [kind |-> "num",
              val |-> CASE which = "avg" ->
                             (200 * DegreeSum(ns) + Len(ns)) \div (2 * Len(ns))
                        [] which = "max" ->
                             CHOOSE d \in degrees : \A e \in degrees : e <= d
                        [] which = "min" ->
                             CHOOSE d \in degrees : \A e \in degrees : d <= e]

\* lines 453-455: x if x else 0, and x or 0
OrZero(v) == IF v.kind = "null" \/ v.val = 0 THEN 0 ELSE v.val

\* lines 425-456: the dictionary when no query raises
get_database_statistics(ns, rs, items) ==
    [reported |-> TRUE,
     node_count |-> Len(ns),
     relationship_count |-> Cardinality(rs),
     entity_types |-> SortByCount(CountLabels(ns, StoreLabels(ns, items))),
     degree_stats |-> [average |-> OrZero(Aggregate(ns, "avg")),
                       maximum |-> OrZero(Aggregate(ns, "max")),
                       minimum |-> OrZero(Aggregate(ns, "min"))]]

\* lines 458-459: the dictionary when a query raises, holding what the
\* queries before it put there
StatisticsKeys ==
    <<"node_count", "relationship_count", "entity_types", "degree_stats">>

PartialStatistics(full, done) ==
    [k \in {"reported"} \cup {StatisticsKeys[n] : n \in 1..done} |-> full[k]]

(***************************************************************************)
(* Inputs of a run.                                                        *)
(***************************************************************************)
TypeSamples == {NaN, <<"a">>}
NameSamples == {<<"x">>, <<"y">>}

EntityRows == [type : TypeSamples, title : NameSamples]
\* relationship rows between two different names
RelationshipRows ==
    {r \in [source : NameSamples, target : NameSamples] : r.source # r.target}

EntityTables == UNION {[1..n -> EntityRows] : n \in 1..MaxEntities}

\* the store main() finds: empty, or holding a node of an earlier load
InitialStores ==
    {<<>>,
     <<[id |-> 0, label |-> EntityLabel, name |-> <<"x">>, type |-> <<>>,
        description |-> <<>>, human_readable_id |-> 0, degree |-> 0]>>}

(***************************************************************************)
(* main().                                                                 *)
(***************************************************************************)
MapIdle ==
    /\ entity_types = <<>>
    /\ mpc = "idle"
    /\ queried = <<>>
    /\ returned = <<>>

\* no Neo4jCleaner is at work
CleanIdle ==
    /\ cpc = "idle"
    /\ store = {}
    /\ store_before = {}
    /\ labels_to_process = <<>>
    /\ confirm = <<>>
    /\ ci = 0
    /\ deleted_count = 0

RunInit ==
    /\ pc = "ask_list"
    /\ driver = "none"
    /\ temp_driver = "none"
    /\ type_to_label = EmptyDict
    /\ entities_df = <<>>
    /\ total_relationships = 0
    /\ relationships_data = <<>>
    /\ rel_batch = <<>>
    /\ bi = 0
    /\ created_count = 0
    /\ rel_created_count = 0
    /\ failed_batches = <<>>
    /\ rel_failed_batches = <<>>
    /\ nodes \in InitialStores
    /\ rels = {}
    /\ schema = {}
    /\ schema_issued = {}
    /\ sent = <<>>
    /\ faults = 0
    /\ stats = [reported |-> FALSE]
    /\ schema_failures = {}
    /\ run = 1

Init == RunInit /\ MapIdle /\ CleanIdle

\* the finally clause: builder.close()
Return ==
    /\ pc' = "done"
    /\ driver' = IF driver = "open" THEN "closed" ELSE driver

\* lines 566-568, list_databases: asked for or not; when asked for, the
\* temporary driver is closed only if nothing raised after it was made (it is
\* not made when GraphDatabase.driver itself raises)
AskListDatabases ==
    /\ pc = "ask_list"
    /\ pc' = "connect"
    /\ \/ UNCHANGED <<temp_driver, faults>>
       \/ temp_driver' = "closed" /\ UNCHANGED faults
       \/ /\ faults < MaxFaults
          /\ faults' = faults + 1
          /\ temp_driver' \in {"none", "open"}
    /\ UNCHANGED <<driver, type_to_label, entities_df, total_relationships,
                   relationships_data, bi, created_count, rel_created_count,
                   failed_batches, rel_failed_batches, nodes, rels, schema,
                   schema_issued, sent, stats, mapVars, cleanVars,
                   schema_failures, run, rel_batch>>

\* a main that goes on whatever connect returned
AfterConnectIgnored(connected) == "ask_clear"

\* lines 571-572: if not builder.connect(): return
AfterConnect(connected) == IF connected THEN "ask_clear" ELSE "done"

\* lines 571-572, connect: the driver is made, then tested with a query; when
\* either raises main returns, and its finally clause closes the driver if made
Connect ==
    /\ pc = "connect"
    /\ \/ driver' = "open" /\ pc' = AfterConnect(TRUE) /\ UNCHANGED faults
       \/ /\ faults < MaxFaults
          /\ faults' = faults + 1
          /\ pc' = AfterConnect(FALSE)
          /\ driver' \in {"none", "closed"}
    /\ UNCHANGED <<temp_driver, type_to_label, entities_df,
                   total_relationships, relationships_data, bi, created_count,
                   rel_created_count, failed_batches, rel_failed_batches,
                   nodes, rels, schema, schema_issued, sent, stats,
                   mapVars, cleanVars,
                   schema_failures, run, rel_batch>>

\* lines 575-578, clear_database
AskClearDatabase ==
    /\ pc = "ask_clear"
    /\ \/ pc' = "schema" /\ UNCHANGED <<driver, nodes, rels, sent, faults>>
       \/ /\ pc' = "schema"
          /\ nodes' = ClearedNodes
          /\ rels' = {}
          /\ sent' = Append(sent, [phase |-> "clear", batch |-> 0,
                                   label |-> <<>>, ok |-> TRUE])
          /\ UNCHANGED <<driver, faults>>
       \/ /\ faults < MaxFaults
          /\ faults' = faults + 1
          /\ sent' = Append(sent, [phase |-> "clear", batch |-> 0,
                                   label |-> <<>>, ok |-> FALSE])
          /\ Return
          /\ UNCHANGED <<nodes, rels>>
    /\ UNCHANGED <<temp_driver, type_to_label, entities_df,
                   total_relationships, relationships_data, bi, created_count,
                   rel_created_count, failed_batches, rel_failed_batches,
                   schema, schema_issued, stats, mapVars, cleanVars,
                   schema_failures, run, rel_batch>>

\* line 581, create_constraints_and_indexes: every statement is sent; one
\* the store rejects is printed and skipped.  The store rejects the
\* statements of rejected, at most budget of them in all.
EnsureSchemaThen(budget, next) ==
    /\ pc = "schema"
    /\ pc' = next
    /\ \E rejected \in SUBSET SchemaStatements :
        /\ faults + Cardinality(rejected) <= budget
        /\ \E issued \in SUBSET SchemaStatements :
            /\ SentStatements(issued, rejected)
            /\ faults' = faults + Cardinality(issued \cap rejected)
            /\ schema_issued' = schema_issued \cup issued
            /\ \E added \in CreationChoices(schema, issued \ rejected) :
                /\ StoreCreates(schema, issued \ rejected, added)
                /\ schema' = schema \cup {SchemaItem(s) : s \in added}
                /\ schema_failures' =
                      (issued \cap rejected)
                        \cup RaisesOnExisting(issued \ rejected, added)
    /\ UNCHANGED <<driver, temp_driver, type_to_label, entities_df,
                   total_relationships, relationships_data, bi, created_count,
                   rel_created_count, failed_batches, rel_failed_batches,
                   nodes, rels, sent, stats, mapVars, cleanVars, run, rel_batch>>

\* line 581 of main: load_entities (line 584) comes next
EnsureSchema(budget) == EnsureSchemaThen(budget, "load_entities")

CreateConstraintsAndIndexes == EnsureSchema(MaxFaults)

\* lines 584-587, load_entities: the table is read and the mapping generated
\* from its type column; an unreadable or empty table ends the run
LoadEntitiesThen(tables, next) ==
    /\ pc = "load_entities"
    /\ \/ /\ \E df \in tables :
              /\ entities_df' = df
              /\ type_to_label' =
                    generate_type_mappings([k \in DOMAIN df |-> df[k].type])
          /\ pc' = next
          /\ UNCHANGED driver
       \/ Return /\ UNCHANGED <<entities_df, type_to_label>>
    /\ UNCHANGED <<temp_driver, total_relationships, relationships_data, bi,
                   created_count, rel_created_count, failed_batches,
                   rel_failed_batches, nodes, rels, schema, schema_issued,
                   sent, faults, stats, mapVars, cleanVars,
                   schema_failures, run, rel_batch>>

\* lines 584 and 590 of main: load_relationships comes next
LoadEntitiesFrom(tables) == LoadEntitiesThen(tables, "load_relationships")

LoadEntities == LoadEntitiesFrom(EntityTables)

\* lines 590-593, load_relationships
LoadRelationshipsUpTo(most) ==
    /\ pc = "load_relationships"
    /\ \/ /\ \E n \in 1..most : total_relationships' = n
          /\ pc' = "create_entities"
          /\ UNCHANGED driver
       \/ Return /\ UNCHANGED total_relationships
    /\ UNCHANGED <<temp_driver, type_to_label, entities_df,
                   relationships_data, bi, created_count, rel_created_count,
                   failed_batches, rel_failed_batches, nodes, rels, schema,
                   schema_issued, sent, faults, stats, mapVars, cleanVars,
                   schema_failures, run, rel_batch>>

LoadRelationships == LoadRelationshipsUpTo(MaxRels)

\* line 597, create_entities: one turn of its batch loop (lines 242-286).
\* When a row of the batch makes int() raise, the exception leaves
\* create_entities before a statement of the batch is sent, main's
\* "except Exception" (line 626) prints it and the finally clause closes.
CreateEntitiesBatch ==
    /\ pc = "create_entities"
    /\ IF BatchRaises(bi)
       THEN /\ Return
            /\ UNCHANGED <<faults, nodes, created_count, failed_batches,
                           sent, bi>>
       ELSE LET groups == EntitiesByLabel(bi)
            IN  \E f \in 0..Len(groups) :
                 /\ f > 0 => faults < MaxFaults
                 /\ faults' = IF f > 0 THEN faults + 1 ELSE faults
                 /\ nodes' = nodes \o
                       GroupNodes(groups, IF f = 0 THEN Len(groups) ELSE f - 1)
                 /\ created_count' = CreatedAfterBatch(created_count, groups, f)
                 /\ failed_batches' =
                       IF f > 0
                       THEN Append(failed_batches, (bi \div BatchSize) + 1)
                       ELSE failed_batches
                 /\ sent' = sent \o EntityStatements(bi, groups, f)
                 /\ IF NextBatchStart(bi, f) < Len(entities_df)
                    THEN bi' = NextBatchStart(bi, f) /\ pc' = pc
                    ELSE bi' = 0 /\ pc' = "create_relationships"
                 /\ UNCHANGED driver
    /\ UNCHANGED <<temp_driver, type_to_label, entities_df,
                   total_relationships, relationships_data, rel_created_count,
                   rel_failed_batches, rels, schema, schema_issued, stats,
                   mapVars, cleanVars,
                   schema_failures, run, rel_batch>>

\* line 602, create_relationships: one turn of its batch loop (lines
\* 330-363), on rows of the table drawn from rowset.  When a row makes
\* float() or int() raise, the exception leaves create_relationships with
\* the rows before it converted and no statement of the batch sent.
CreateRelationshipsBatchFrom(rowset) ==
    /\ pc = "create_relationships"
    /\ LET last == Min(bi + BatchSize, total_relationships)
       IN  \E rows \in [(bi + 1)..last -> rowset] :
            LET raising == {k \in 1..(last - bi) :
                                RelationshipRaises(rows[bi + k])}
                converted == IF raising = {}
                             THEN last - bi
                             ELSE (CHOOSE k \in raising :
                                      \A j \in raising : k <= j) - 1
                data == [k \in 1..converted |->
                            RelationshipData(bi + k, rows[bi + k])]
                batch == (bi \div BatchSize) + 1
            IN  /\ rel_batch' = rows
                /\ relationships_data' = data
                /\ IF raising # {}
                   THEN /\ Return
                        /\ UNCHANGED <<rels, rel_created_count, sent,
                                       rel_failed_batches, faults, bi>>
                   ELSE /\ \/ /\ rels' = rels \cup CreatedRelationships(data)
                              /\ rel_created_count' =
                                    RelCreatedAfterBatch(rel_created_count, data)
                              /\ sent' = Append(sent, [phase |-> "relationship",
                                      batch |-> batch, label |-> <<>>,
                                      ok |-> TRUE])
                              /\ UNCHANGED <<rel_failed_batches, faults>>
                           \/ /\ faults < MaxFaults
                              /\ faults' = faults + 1
                              /\ rel_failed_batches' =
                                    Append(rel_failed_batches, batch)
                              /\ sent' = Append(sent, [phase |-> "relationship",
                                      batch |-> batch, label |-> <<>>,
                                      ok |-> FALSE])
                              /\ UNCHANGED <<rels, rel_created_count>>
                        /\ IF bi + BatchSize < total_relationships
                           THEN bi' = bi + BatchSize /\ pc' = pc
                           ELSE bi' = 0 /\ pc' = "statistics"
                        /\ UNCHANGED driver
    /\ UNCHANGED <<temp_driver, type_to_label, entities_df,
                   total_relationships, created_count, failed_batches, nodes,
                   schema, schema_issued, stats, mapVars, cleanVars,
                   schema_failures, run>>

CreateRelationshipsBatch == CreateRelationshipsBatchFrom(RelationshipRows)

\* lines 606-630: get_database_statistics, the report, and the finally clause
Statistics ==
    /\ pc = "statistics"
    /\ \/ /\ stats' = get_database_statistics(nodes, rels, schema)
          /\ UNCHANGED faults
       \/ /\ faults < MaxFaults
          /\ faults' = faults + 1
          /\ \E done \in 0..(Len(StatisticsKeys) - 1) :
                stats' = PartialStatistics(
                            get_database_statistics(nodes, rels, schema), done)
    /\ Return
    /\ UNCHANGED <<temp_driver, type_to_label, entities_df,
                   total_relationships, relationships_data, bi, created_count,
                   rel_created_count, failed_batches, rel_failed_batches,
                   nodes, rels, schema, schema_issued, sent, mapVars, cleanVars,
                   schema_failures, run, rel_batch>>

Next ==
    \/ AskListDatabases
    \/ Connect
    \/ AskClearDatabase
    \/ CreateConstraintsAndIndexes
    \/ LoadEntities
    \/ LoadRelationships
    \/ CreateEntitiesBatch
    \/ CreateRelationshipsBatch
    \/ Statistics

Spec == Init /\ [][Next]_vars

(***************************************************************************)
(* main() on tables whose type column holds quoted values: SpecQuoted.     *)
(***************************************************************************)
\* a plain type, and one written with an opening quote and a blank
QuotedTypeSamples == {<<"a">>, <<DQ, " ", "a">>}

QuotedRows == [type : QuotedTypeSamples, title : {<<"x">>}]

QuotedTables == UNION {[1..n -> QuotedRows] : n \in 1..MaxEntities}

LoadQuotedEntities == LoadEntitiesFrom(QuotedTables)

QuotedNext ==
    \/ AskListDatabases
    \/ Connect
    \/ AskClearDatabase
    \/ CreateConstraintsAndIndexes
    \/ LoadQuotedEntities
    \/ LoadRelationships
    \/ CreateEntitiesBatch
    \/ CreateRelationshipsBatch
    \/ Statistics

SpecQuoted == Init /\ [][QuotedNext]_vars

(***************************************************************************)
(* main() run again against the store an earlier run left: SpecRerun.      *)
(***************************************************************************)
RerunTables == {<<[type |-> <<"a">>, title |-> <<"x">>]>>}

LoadRerunEntities == LoadEntitiesFrom(RerunTables)

EnsureSchemaOften == EnsureSchema(MaxSchemaFaults)

\* the program is started again: a new builder, the same store
Rerun ==
    /\ pc = "done"
    /\ run < MaxRuns
    /\ run' = run + 1
    /\ pc' = "ask_list"
    /\ driver' = "none"
    /\ temp_driver' = "none"
    /\ type_to_label' = EmptyDict
    /\ entities_df' = <<>>
    /\ total_relationships' = 0
    /\ relationships_data' = <<>>
    /\ rel_batch' = <<>>
    /\ bi' = 0
    /\ created_count' = 0
    /\ rel_created_count' = 0
    /\ failed_batches' = <<>>
    /\ rel_failed_batches' = <<>>
    /\ schema_issued' = {}
    /\ schema_failures' = {}
    /\ sent' = <<>>
    /\ stats' = [reported |-> FALSE]
    /\ UNCHANGED <<nodes, rels, schema, faults, mapVars, cleanVars>>

RerunNext ==
    \/ AskListDatabases
    \/ Connect
    \/ AskClearDatabase
    \/ EnsureSchemaOften
    \/ LoadRerunEntities
    \/ LoadRelationships
    \/ CreateEntitiesBatch
    \/ CreateRelationshipsBatch
    \/ Statistics
    \/ Rerun

SpecRerun == Init /\ [][RerunNext]_vars

(***************************************************************************)
(* main() on tables that have the description and numeric columns:         *)
(* SpecRow.                                                                *)
(***************************************************************************)
\* cells of a numeric column: missing, a number, a text that is no number
NumericSamples == {NumNaN, Num(7), Text(<<"x">>)}

\* cells of a description column: missing, or a text up to one character
\* longer than what is kept of it
SampleText == <<"d", "e", "s", "c", "r", "i", "p", "t">>

DescriptionSamples(limit) ==
    {NaN} \cup {SubSeq(SampleText, 1, k) : k \in 0..(limit + 1)}

AttributeRows ==
    [type : {<<"a">>}, title : {<<"x">>},
     description : DescriptionSamples(EntityDescriptionLimit),
     human_readable_id : NumericSamples,
     degree : NumericSamples]

\* tables of one row
AttributeTables == {<<row>> : row \in AttributeRows}

AttributeRelationshipRows ==
    [source : {<<"x">>}, target : {<<"x">>},
     description : DescriptionSamples(RelationshipDescriptionLimit),
     rank : {NumNaN, Text(<<"x">>)}]

LoadAttributeEntities == LoadEntitiesFrom(AttributeTables)

CreateAttributeRelationshipsBatch ==
    CreateRelationshipsBatchFrom(AttributeRelationshipRows)

RowNext ==
    \/ AskListDatabases
    \/ Connect
    \/ AskClearDatabase
    \/ CreateConstraintsAndIndexes
    \/ LoadAttributeEntities
    \/ LoadRelationships
    \/ CreateEntitiesBatch
    \/ CreateAttributeRelationshipsBatch
    \/ Statistics

SpecRow == Init /\ [][RowNext]_vars

(***************************************************************************)
(* SpecBatch: main() on tables of several batches in both phases: entity   *)
(* rows of one title, and up to BatchSize + 1 relationship rows.           *)
(***************************************************************************)
BatchEntityRows == [type : TypeSamples, title : {<<"x">>}]

BatchTables == UNION {[1..n -> BatchEntityRows] : n \in 1..MaxEntities}

BatchRelationshipRows == {[source |-> <<"x">>, target |-> <<"x">>]}

LoadBatchEntities == LoadEntitiesFrom(BatchTables)

LoadBatchRelationships == LoadRelationshipsUpTo(BatchSize + 1)

CreateBatchRelationshipsBatch ==
    CreateRelationshipsBatchFrom(BatchRelationshipRows)

BatchNext ==
    \/ AskListDatabases
    \/ Connect
    \/ AskClearDatabase
    \/ CreateConstraintsAndIndexes
    \/ LoadBatchEntities
    \/ LoadBatchRelationships
    \/ CreateEntitiesBatch
    \/ CreateBatchRelationshipsBatch
    \/ Statistics

SpecBatch == Init /\ [][BatchNext]_vars

(***************************************************************************)
(* SpecAbsent: main() on tables with absent cells: entity rows with or     *)
(* without a title, relationship rows with or without a source and a       *)
(* target.                                                                 *)
(***************************************************************************)
AbsentNameSamples == {NaN, <<"x">>}

AbsentEntityRows == [type : {<<"a">>}, title : AbsentNameSamples]

AbsentTables == UNION {[1..n -> AbsentEntityRows] : n \in 1..MaxEntities}

AbsentRelationshipRows ==
    [source : AbsentNameSamples, target : AbsentNameSamples]

LoadAbsentEntities == LoadEntitiesFrom(AbsentTables)

CreateAbsentRelationshipsBatch ==
    CreateRelationshipsBatchFrom(AbsentRelationshipRows)

AbsentNext ==
    \/ AskListDatabases
    \/ Connect
    \/ AskClearDatabase
    \/ CreateConstraintsAndIndexes
    \/ LoadAbsentEntities
    \/ LoadRelationships
    \/ CreateEntitiesBatch
    \/ CreateAbsentRelationshipsBatch
    \/ Statistics

SpecAbsent == Init /\ [][AbsentNext]_vars

(***************************************************************************)
(* SpecBuilder: a caller of a connected TCMNeo4jBuilder that loads the     *)
(* entity table first, then calls create_constraints_and_indexes, then     *)
(* create_entities, then close.  The types are a quoted empty string and   *)
(* a letter in either case.                                                *)
(***************************************************************************)
BuilderTypeSamples == {<<DQ, DQ>>, <<"a">>, <<"A">>}

BuilderRows == [type : BuilderTypeSamples, title : {<<"x">>}]

BuilderTables == UNION {[1..n -> BuilderRows] : n \in 1..MaxEntities}

\* the builder after connect() returned True, and the store
BuilderStart ==
    /\ type_to_label = EmptyDict
    /\ entities_df = <<>>
    /\ total_relationships = 0
    /\ relationships_data = <<>>
    /\ rel_batch = <<>>
    /\ bi = 0
    /\ created_count = 0
    /\ rel_created_count = 0
    /\ failed_batches = <<>>
    /\ rel_failed_batches = <<>>
    /\ nodes \in InitialStores
    /\ rels = {}
    /\ schema = {}
    /\ schema_issued = {}
    /\ sent = <<>>
    /\ faults = 0
    /\ stats = [reported |-> FALSE]
    /\ schema_failures = {}
    /\ run = 1
    /\ temp_driver = "none"
    /\ MapIdle
    /\ CleanIdle
    /\ pc = "load_entities"
    /\ driver = "open"

BuilderLoadEntities == LoadEntitiesThen(BuilderTables, "schema")

\* create_constraints_and_indexes on a store that rejects no statement
BuilderSchema == EnsureSchemaThen(0, "create_entities")

\* close() after create_entities returned
BuilderClose ==
    /\ pc = "create_relationships"
    /\ Return
    /\ UNCHANGED <<temp_driver, type_to_label, entities_df,
                   total_relationships, relationships_data, bi, created_count,
                   rel_created_count, failed_batches, rel_failed_batches,
                   nodes, rels, schema, schema_issued, sent, faults, stats,
                   mapVars, cleanVars, schema_failures, run, rel_batch>>

BuilderNext ==
    \/ BuilderLoadEntities
    \/ BuilderSchema
    \/ CreateEntitiesBatch
    \/ BuilderClose

SpecBuilder == BuilderStart /\ [][BuilderNext]_vars

(***************************************************************************)
(* The label-mapping specifications.  SpecMap: generate_type_mappings on a *)
(* list of distinct raw type values, then get_entity_label on each of      *)
(* them.  SpecLabel: generate_type_mappings on at most one value, then     *)
(* get_entity_label on any value.                                          *)
(***************************************************************************)
\* raw type values of SpecMap: a letter, a blank, a double quote
MapRawValues == StringsUpTo({"a", " ", DQ}, MaxLen) \cup {NaN}

\* raw type values of SpecLabel: also a bracket and a hyphen
LabelRawValues == StringsUpTo({"a", " ", DQ, "(", "-"}, MaxLen) \cup {NaN}

\* lists of distinct values, as DataFrame['type'].unique() returns them
UniqueLists(values, n) ==
    {l \in UNION {[1..k -> values] : k \in 0..n} :
        \A i, j \in DOMAIN l : i # j => l[i] # l[j]}

MapStart(lists) ==
    /\ RunInit
    /\ CleanIdle
    /\ nodes = <<>>
    /\ entity_types \in lists
    /\ mpc = "init"
    /\ queried = <<>>
    /\ returned = <<>>

\* load_entities line 147: self.generate_type_mappings(unique_types)
MapGenerate ==
    /\ mpc = "init"
    /\ type_to_label' = generate_type_mappings(entity_types)
    /\ mpc' = "mapped"
    /\ UNCHANGED <<runVars, cleanVars, entity_types, queried, returned>>

\* get_entity_label on each value of the list qs
GetLabels(qs) ==
    /\ mpc = "mapped"
    /\ queried' = qs
    /\ returned' = [k \in DOMAIN qs |-> get_entity_label(type_to_label, qs[k])]
    /\ mpc' = "asked"
    /\ UNCHANGED <<runVars, cleanVars, type_to_label, entity_types>>

MapGetLabelsObserved == GetLabels(entity_types)

MapGetLabelAny == \E t \in LabelRawValues : GetLabels(<<t>>)

MapNext == MapGenerate \/ MapGetLabelsObserved

SpecMap == MapStart(UniqueLists(MapRawValues, MaxTypes)) /\ [][MapNext]_vars

LabelNext == MapGenerate \/ MapGetLabelAny

SpecLabel == MapStart(UniqueLists(LabelRawValues, 1)) /\ [][LabelNext]_vars

(***************************************************************************)
(* SpecRemap: generate_type_mappings called again and again on one         *)
(* builder, each time on any list of raw type values.                      *)
(***************************************************************************)
RemapValues ==
    {NaN, <<>>, <<" ">>, <<"a">>, <<"b">>, <<"a", "a">>, <<DQ, "a">>,
     <<DQ, DQ>>}

RemapLists == UNION {[1..k -> RemapValues] : k \in 0..MaxTypes}

Regenerate ==
    /\ \E l \in RemapLists :
          /\ entity_types' = l
          /\ type_to_label' = regenerate_type_mappings(type_to_label, l)
    /\ mpc' = IF mpc = "init" THEN "mapped" ELSE "mapped_again"
    /\ UNCHANGED <<runVars, cleanVars, queried, returned>>

RemapNext == Regenerate

SpecRemap == MapStart({<<>>}) /\ [][RemapNext]_vars

(***************************************************************************)
(* src/ragtest/clean_neo4j_entities.py: Neo4jCleaner.clean_entities on a   *)
(* store whose nodes carry one or two labels and have a relationship or    *)
(* none.  SpecClean is one call of it.                                     *)
(***************************************************************************)
\* lines 14-17: the twelve words, each held as one token, its romanised name
predefined_types ==
    {<<"yaocai">>, <<"fangji">>, <<"jibing">>, <<"zhengzhuang">>,
     <<"yijia">>, <<"gongxiao">>, <<"bingyin">>, <<"maixiang">>,
     <<"zhenduanfangfa">>, <<"jingluo">>, <<"xuewei">>, <<"zangfu">>}

\* line 159: label.lower() == 'unknown'
IsUnknown(l) == Lower(l) = <<"u", "n", "k", "n", "o", "w", "n">>

\* line 159: the labels clean_entities passes over
Skipped(l) == l \in predefined_types \/ IsUnknown(l)

\* the labels of the stores drawn: a predefined one, 'Unknown', and two
\* others
CleanerLabels == {<<"yaocai">>, UnknownLabel, <<"a">>, <<"b">>}

CleanerNodes ==
    [labels : {ls \in SUBSET CleanerLabels : Cardinality(ls) \in {1, 2}},
     linked : BOOLEAN]

\* stores of at most most nodes, numbered from 1
CleanerStores(most) ==
    UNION {{{[id |-> k, labels |-> f[k].labels, linked |-> f[k].linked] :
                k \in 1..n} : f \in [1..n -> CleanerNodes]} :
              n \in 1..most}

\* CALL db.labels(): the labels in use, in an order the store chooses
LabelsInUse(st) == UNION {n.labels : n \in st}

Orderings(S) ==
    {f \in [1..Cardinality(S) -> S] :
        \A i, j \in 1..Cardinality(S) : i # j => f[i] # f[j]}

\* MATCH (n:label) WHERE NOT (n)--(): the nodes of the store it matches
Isolated(st, l) == {n \in st : l \in n.labels /\ ~n.linked}

\* lines 158-177: labels_to_process for the labels of label_list
RECURSIVE ScanLabels(_, _)
ScanLabels(st, label_list) ==
    IF label_list = <<>> THEN <<>>
    ELSE LET label == Head(label_list)
             rest == ScanLabels(st, Tail(label_list))
             isolated_count == Cardinality(Isolated(st, label))
         IN  IF Skipped(label) \/ isolated_count = 0
             THEN rest
             ELSE <<[label |-> label, isolated_count |-> isolated_count]>>
                    \o rest

\* what the user types at the prompt of line 183
Answers == {<<"y">>, <<"Y">>, <<" ", "y">>, <<"n">>, <<>>}

CleanStart ==
    /\ RunInit
    /\ nodes = <<>>
    /\ MapIdle
    /\ cpc = "start"
    /\ store \in CleanerStores(MaxEntities)
    /\ store_before = store
    /\ labels_to_process = <<>>
    /\ confirm = <<>>
    /\ ci = 0
    /\ deleted_count = 0

\* lines 152-181: the labels are listed and counted; a query that raises
\* leaves clean_entities (run_full_cleaning catches it and closes)
CleanScan ==
    /\ cpc = "start"
    /\ \/ /\ \E label_list \in Orderings(LabelsInUse(store)) :
              LET items == ScanLabels(store, label_list)
              IN  /\ labels_to_process' = items
                  /\ cpc' = IF items = <<>> THEN "done" ELSE "confirm"
       \/ cpc' = "done" /\ UNCHANGED labels_to_process
    /\ UNCHANGED <<runVars, type_to_label, mapVars, store, store_before,
                   confirm, ci, deleted_count>>

\* lines 183-188: the confirmation
CleanConfirm ==
    /\ cpc = "confirm"
    /\ \E answer \in Answers :
          /\ confirm' = Lower(PyStrip(answer, Whitespace))
          /\ cpc' = IF confirm' # <<"y">> THEN "done" ELSE "delete"
    /\ UNCHANGED <<runVars, type_to_label, mapVars, store, store_before,
                   labels_to_process, ci, deleted_count>>

\* lines 192-208: one turn of the delete loop; a delete that raises is
\* printed and the loop goes on
CleanDelete ==
    /\ cpc = "delete"
    /\ LET item == labels_to_process[ci + 1]
       IN  \/ /\ store' = store \ Isolated(store, item.label)
              /\ deleted_count' = deleted_count + item.isolated_count
           \/ UNCHANGED <<store, deleted_count>>
    /\ ci' = ci + 1
    /\ cpc' = IF ci + 1 = Len(labels_to_process) THEN "done" ELSE "delete"
    /\ UNCHANGED <<runVars, type_to_label, mapVars, store_before,
                   labels_to_process, confirm>>

CleanNext == CleanScan \/ CleanConfirm \/ CleanDelete

SpecClean == CleanStart /\ [][CleanNext]_vars

(***************************************************************************)
(* Notions the claims are stated with.                                     *)
(***************************************************************************)
\* the specification's normalisation of a raw type into a TypeKey: strip
\* whitespace, strip one layer of surrounding quotes, strip whitespace again
StripOneQuoteLayer(s) ==
    IF Len(s) >= 2 /\ Head(s) = DQ /\ s[Len(s)] = DQ
    THEN SubSeq(s, 2, Len(s) - 1)
    ELSE s

TypeKey(raw) ==
    IF IsNa(raw)
    THEN <<>>
    ELSE PyStrip(StripOneQuoteLayer(PyStrip(raw, Whitespace)), Whitespace)

\* letters and digits (of the scripts the model's strings are written in)
Letters ==
    {"a", "b", "c", "d", "e", "f", "g", "h", "i", "j", "k", "l", "m", "n",
     "o", "p", "q", "r", "s", "t", "u", "v", "w", "x", "y", "z",
     "A", "B", "C", "D", "E", "F", "G", "H", "I", "J", "K", "L", "M", "N",
     "O", "P", "Q", "R", "S", "T", "U", "V", "W", "X", "Y", "Z"}

\* the candidate label of a key: the key without the characters removed
SanitizedCandidate(k) == SelectSeq(k, LAMBDA c : ~RemovedByLabelRegex(c))

\* the key get_entity_label looks a type up under (line 225)
LookupKey(t) == CleanType(t)

\* the row has no number in the column: no value, or a text that is none
AbsentOrNonNumeric(row, col) ==
    LET v == RowGet(row, col, NumNaN)
    IN  v.kind = "nan" \/ (v.kind = "str" /\ ~IsDecimal(v.val))

\* stored is what the claim keeps of a description cell: nothing of a
\* missing one, else its first characters, limit of them at most
KeptOf(cell, stored, limit) ==
    IF IsNa(cell)
    THEN stored = <<>>
    ELSE /\ Len(stored) = Min(Len(cell), limit)
         /\ \A k \in DOMAIN stored : stored[k] = cell[k]

\* the tables of the end-to-end scenario: two rows of one name and type, a
\* row without a type, and a relationship from the shared name
ScenarioInput ==
    /\ entities_df = <<[type |-> <<"a">>, title |-> <<"x">>],
                       [type |-> NaN, title |-> <<"y">>],
                       [type |-> <<"a">>, title |-> <<"x">>]>>
    /\ total_relationships = 1
    /\ rel_batch = <<[source |-> <<"x">>, target |-> <<"y">>]>>

\* a statement of entity batch j is among the first n - 1 statements sent
BatchAttemptedBefore(j, n) ==
    \E m \in DOMAIN sent :
        m < n /\ sent[m].phase = "entity" /\ sent[m].batch = j

\* create_entities has returned
EntitiesDone ==
    \/ pc \in {"create_relationships", "statistics"}
    \/ pc = "done" /\ stats.reported

\* create_relationships has returned
RelationshipsDone ==
    \/ pc = "statistics"
    \/ pc = "done" /\ stats.reported

\* the nodes this run created (a node of an earlier load has id 0)
CreatedNodes == {p \in DOMAIN nodes : nodes[p].id > 0}

NumBatches == (Len(entities_df) + BatchSize - 1) \div BatchSize

BatchRows(j) ==
    ((j - 1) * BatchSize + 1)..Min(j * BatchSize, Len(entities_df))

\* the entity batches with a rejected statement
RejectedBatches ==
    {sent[k].batch : k \in {n \in DOMAIN sent :
                              sent[n].phase = "entity" /\ ~sent[n].ok}}

RowCommitted(idx) == \E p \in DOMAIN nodes : nodes[p].id = idx

RowSubmitted(j, idx) ==
    \E n \in DOMAIN sent :
        /\ sent[n].phase = "entity"
        /\ sent[n].batch = j
        /\ sent[n].label = EntityNode(idx, entities_df[idx]).label

(***************************************************************************)
(* The claims.                                                             *)
(***************************************************************************)
\* C1: a relationship row whose source name or target name matches more
\* than one node of the store creates no relationship: every relationship
\* of the store joins a source and a target whose names each match one node.
C1_AmbiguousRowCreatesNothing ==
    \A r \in rels :
        /\ Cardinality(MatchByName(nodes[r.source].name)) = 1
        /\ Cardinality(MatchByName(nodes[r.target].name)) = 1

\* C2: the mapping generate_type_mappings builds gives two distinct labels
\* to any two distinct non-empty type keys whose sanitized forms are equal.
C2_CollidingKeysGetDistinctLabels ==
    mpc # "init" =>
        \A k1, k2 \in DOMAIN type_to_label :
            (/\ TypeKey(k1) # TypeKey(k2)
             /\ TypeKey(k1) # <<>>
             /\ TypeKey(k2) # <<>>
             /\ generate_neo4j_label(k1) = generate_neo4j_label(k2))
            => type_to_label[k1] # type_to_label[k2]

\* C3: when the store rejects one entity batch k only, every other batch is
\* submitted and committed, created_count counts exactly the rows of the
\* other batches, and one failure is reported, with the number k.
C3_BatchFailureIsolation ==
    EntitiesDone =>
        \A k \in 1..NumBatches :
            RejectedBatches = {k} =>
                /\ failed_batches = <<k>>
                /\ \A j \in (1..NumBatches) \ {k} :
                    \A idx \in BatchRows(j) :
                        RowSubmitted(j, idx) /\ RowCommitted(idx)
                /\ created_count =
                      Len(entities_df) - Cardinality(BatchRows(k))

\* C3's case: the first of two batches was rejected and the second counted.
C3_Witness ==
    /\ EntitiesDone
    /\ NumBatches = 2
    /\ RejectedBatches = {1}
    /\ failed_batches = <<1>>
    /\ created_count > 0

\* C4: the count create_entities reports at its end is the number of nodes
\* that call inserted into the store, whichever grouped inserts failed.
C4_CreatedCountIsInsertedNodes ==
    EntitiesDone => created_count = Cardinality(CreatedNodes)

\* C5: the count create_relationships reports at its end is the number of
\* rows for which a relationship was created in the store.
C5_RelCountIsRowsWithRelationship ==
    RelationshipsDone =>
        rel_created_count = Cardinality({r.id : r \in rels})

\* C6: when a node is inserted, the uniqueness constraint and the name and
\* type indexes of its label have been issued.
C6_SchemaIssuedBeforeInsert ==
    \A p \in CreatedNodes :
        \A kd \in {"id_unique", "name_index", "type_index"} :
            \E s \in schema_issued :
                s.kind = kd /\ s.label = nodes[p].label

\* C7: get_entity_label returns the same label for any two observed
\* non-empty raw type strings that normalize to the same TypeKey.
C7_SameKeySameLabel ==
    mpc = "asked" =>
        \A i, j \in DOMAIN queried :
            (/\ ~IsNa(queried[i]) /\ queried[i] # <<>>
             /\ ~IsNa(queried[j]) /\ queried[j] # <<>>
             /\ TypeKey(queried[i]) = TypeKey(queried[j]))
            => returned[i] = returned[j]

\* C8: get_entity_label returns 'Unknown' for every raw type that is absent
\* or whose TypeKey is empty, whatever the mapping holds.
C8_EmptyKeyIsUnknown ==
    mpc = "asked" =>
        \A i \in DOMAIN queried :
            TypeKey(queried[i]) = <<>> => returned[i] = UnknownLabel

\* C9: after generate_type_mappings no non-empty type key is mapped to
\* 'Unknown'.
C9_UnknownIsNotShared ==
    mpc # "init" =>
        \A k \in DOMAIN type_to_label :
            TypeKey(k) # <<>> => type_to_label[k] # UnknownLabel

\* C10: every label of the mapping consists of letters and digits only.
C10_LabelsAreAlphanumeric ==
    mpc # "init" =>
        \A k \in DOMAIN type_to_label :
            \A n \in DOMAIN type_to_label[k] :
                type_to_label[k][n] \in Letters \cup Digits

\* C11: a non-empty type key of the mapping that consists only of the
\* characters sanitization removes is mapped to the generic label 'Entity'.
C11_EmptyCandidateIsEntity ==
    mpc # "init" =>
        \A k \in DOMAIN type_to_label :
            (k # <<>> /\ SanitizedCandidate(k) = <<>>)
            => type_to_label[k] = EntityLabel

\* C12: get_entity_label returns 'Entity' for every non-empty key it does
\* not find in the mapping: a row whose type it looks up under such a key
\* is inserted under 'Entity', and when the store rejects no statement every
\* row of the table is inserted and counted.
C12_MissingKeyIsEntity ==
    /\ \A p \in CreatedNodes :
          (/\ LookupKey(nodes[p].type) # <<>>
           /\ LookupKey(nodes[p].type) \notin DOMAIN type_to_label)
          => nodes[p].label = EntityLabel
    /\ (EntitiesDone /\ RejectedBatches = {}) =>
          /\ \A idx \in DOMAIN entities_df : RowCommitted(idx)
          /\ created_count = Len(entities_df)

\* C12's case: create_entities has ended, and a row whose type ' a' is
\* looked up under the key 'a', which the mapping lacks, is a node of the
\* store, under 'Entity'.
C12_Witness ==
    /\ EntitiesDone
    /\ <<"a">> \notin DOMAIN type_to_label
    /\ \E p \in CreatedNodes :
          /\ nodes[p].type = <<" ", "a">>
          /\ nodes[p].label = EntityLabel

\* C13: when main is run a second time against the store and the store
\* rejects nothing in either run, the second create_constraints_and_indexes
\* prints no failure and leaves the constraints and indexes of the store as
\* the first run left them.
C13_SchemaIdempotent ==
    [][(pc = "schema" /\ run > 1 /\ faults' = 0)
         => (schema_failures' = {} /\ schema' = schema)]_vars

\* C13's case: the second run is past its schema step, nothing was
\* rejected, and the store holds the five items the first run created.
C13_Witness ==
    /\ run = 2
    /\ pc = "load_entities"
    /\ faults = 0
    /\ schema_failures = {}
    /\ schema = {SchemaItem(s) : s \in SchemaStatements}
    /\ Cardinality(schema) = 5

\* C14: whichever statements the store rejects, create_constraints_and_indexes
\* sends every statement, prints the rejected ones, leaves every other item
\* in the store, and main goes on to load_entities.
C14_SchemaFailuresIsolated ==
    [][pc = "schema" =>
         /\ pc' = "load_entities"
         /\ schema_issued' = SchemaStatements
         /\ \A s \in SchemaStatements \ schema_failures' :
               ItemExists(s, schema')
         /\ Cardinality(schema_failures') = faults' - faults]_vars

\* C14's case: two statements were rejected, one of them of the label
\* 'Entity'; the other statements were sent and their items are in the store.
C14_Witness ==
    /\ pc = "load_entities"
    /\ Cardinality(schema_failures) = 2
    /\ \E s \in schema_failures : s.label = EntityLabel
    /\ schema_issued = SchemaStatements
    /\ Cardinality(schema) = 3

\* C15: when create_entities has ended, the grouped insert of every label
\* group of every batch was submitted, also for the groups that follow a
\* rejected group in their batch.
C15_RemainingGroupsSubmitted ==
    EntitiesDone =>
        \A j \in 1..NumBatches :
            \A idx \in BatchRows(j) : RowSubmitted(j, idx)

\* C16: a turn of the batch loop of create_entities never ends the run, and
\* every node it inserts holds 0 for human_readable_id and for degree when
\* the row's value is absent or is no number.
C16_BadNumericIsZero ==
    [][pc = "create_entities" =>
         /\ pc' # "done"
         /\ \A p \in DOMAIN nodes' \ DOMAIN nodes :
               \A col \in {"human_readable_id", "degree"} :
                   AbsentOrNonNumeric(entities_df[nodes'[p].id], col)
                   => nodes'[p][col] = 0]_vars

\* C17: the description of every node the run inserted is the first
\* characters of its row's description, EntityDescriptionLimit of them at
\* most, and the description of every relationship of the last batch is
\* the first RelationshipDescriptionLimit at most of its row's; a missing
\* description is stored as the empty string.
C17_DescriptionsTruncated ==
    /\ \A p \in CreatedNodes :
          KeptOf(RowGet(entities_df[nodes[p].id], "description", NaN),
                 nodes[p].description, EntityDescriptionLimit)
    /\ \A r \in rels :
          r.id \in DOMAIN rel_batch =>
              KeptOf(RowGet(rel_batch[r.id], "description", NaN),
                     r.description, RelationshipDescriptionLimit)

\* C17's case: a node and a relationship are in the store whose rows'
\* descriptions are one character longer than what is kept.
C17_Witness ==
    /\ \E p \in CreatedNodes :
          /\ Len(entities_df[nodes[p].id].description)
                = EntityDescriptionLimit + 1
          /\ Len(nodes[p].description) = EntityDescriptionLimit
    /\ \E r \in rels :
          /\ r.id \in DOMAIN rel_batch
          /\ Len(rel_batch[r.id].description)
                = RelationshipDescriptionLimit + 1
          /\ Len(r.description) = RelationshipDescriptionLimit

\* C18: the run that loads the rows (x, type a), (y, no type), (x, type a)
\* and the relationship row x -> y into an empty store, with nothing
\* rejected, ends with three nodes, two under the label of a and one under
\* 'Unknown', with no relationship, and reports 3 nodes and 0 relationships.
C18_ScenarioReport ==
    (/\ ScenarioInput
     /\ faults = 0
     /\ CreatedNodes = DOMAIN nodes
     /\ stats.reported)
    => /\ Len(nodes) = 3
       /\ Cardinality({p \in DOMAIN nodes : nodes[p].label = <<"a">>}) = 2
       /\ Cardinality({p \in DOMAIN nodes : nodes[p].label = UnknownLabel}) = 1
       /\ rels = {}
       /\ stats.node_count = 3
       /\ stats.relationship_count = 0

C20_ConnectedRunReports ==
    [][(pc \notin {"ask_list", "connect", "done"} /\ pc' = "done")
         => stats'.reported]_vars

\* C21: a connect that fails ends the run with no clear, schema, node or
\* relationship statement sent and the store as it was, and an ended run
\* sends nothing.
C21_NoWriteAfterFailedConnect ==
    [][/\ (pc = "connect" /\ faults' # faults) =>
            /\ pc' = "done"
            /\ sent' = <<>>
            /\ schema_issued' = {}
            /\ UNCHANGED <<nodes, rels, schema>>
       /\ (pc = "done" /\ run' = run) =>
            UNCHANGED <<sent, schema_issued, nodes, rels, schema>>]_vars

\* C21's case: the run has ended at a failed connect, made after the driver
\* was constructed, on a store that holds a node; nothing was sent.
C21_Witness ==
    /\ pc = "done"
    /\ faults = 1
    /\ driver = "closed"
    /\ temp_driver = "closed"
    /\ sent = <<>>
    /\ schema_issued = {}
    /\ nodes # <<>>

\* C22: when main has returned no driver is open, neither self.driver nor
\* the temporary driver of list_databases.
C22_DriversReleased ==
    pc = "done" => (driver # "open" /\ temp_driver # "open")

\* the relationship batches of the table
NumRelBatches == (total_relationships + BatchSize - 1) \div BatchSize

\* the entity batch that holds row idx
BatchOfRow(idx) == ((idx - 1) \div BatchSize) + 1

\* C23: get_database_statistics on a store with no node and no
\* relationship, when no query raises, returns node count 0, relationship
\* count 0, an empty per-label list and degree statistics of 0, whatever
\* constraints and indexes the store holds.
C23_EmptyStoreStatistics ==
    [][(pc = "statistics" /\ faults' = faults /\ nodes = <<>> /\ rels = {})
         => stats' = [reported |-> TRUE,
                      node_count |-> 0,
                      relationship_count |-> 0,
                      entity_types |-> <<>>,
                      degree_stats |->
                          [average |-> 0, maximum |-> 0, minimum |-> 0]]]_vars

\* C23's case: the statistics of a store that holds constraints and indexes
\* of labels but no node and no relationship.
C23_Witness ==
    /\ pc = "done" /\ nodes = <<>> /\ rels = {}
    /\ \E e \in schema : e.label # <<>>
    /\ "degree_stats" \in DOMAIN stats
    /\ stats.entity_types = <<>>
    /\ stats.degree_stats.maximum = 0

\* C24: in both phases the statements go out in increasing batch order and
\* no batch (no label group of an entity batch) is sent twice, rejected or
\* not; a statement of entity batch j carries a label of a row among the at
\* most batch_size consecutive rows of batch j, every row has exactly one
\* such batch, and a row is inserted at most once, by an accepted statement
\* of its batch and label.
C24_BatchesInOrderOnce ==
    /\ \A n, m \in DOMAIN sent :
          (n < m /\ sent[n].phase = sent[m].phase) =>
              /\ sent[n].batch <= sent[m].batch
              /\ ~(sent[n].batch = sent[m].batch
                     /\ sent[n].label = sent[m].label)
    /\ \A n \in DOMAIN sent :
          IF sent[n].phase = "entity"
          THEN /\ sent[n].batch \in 1..NumBatches
               /\ Cardinality(BatchRows(sent[n].batch)) \in 1..BatchSize
               /\ \E idx \in BatchRows(sent[n].batch) :
                      EntityNode(idx, entities_df[idx]).label = sent[n].label
          ELSE sent[n].phase = "relationship" =>
                   sent[n].batch \in 1..NumRelBatches
    /\ \A idx \in DOMAIN entities_df :
          /\ \A j \in 1..NumBatches : idx \in BatchRows(j) <=> j = BatchOfRow(idx)
          /\ Cardinality({p \in DOMAIN nodes : nodes[p].id = idx}) <= 1
          /\ RowCommitted(idx) =>
                \E n \in DOMAIN sent :
                    /\ sent[n].phase = "entity" /\ sent[n].ok
                    /\ sent[n].batch = BatchOfRow(idx)
                    /\ sent[n].label = EntityNode(idx, entities_df[idx]).label

\* C24's case: both phases sent two batches, the first entity batch in two
\* label groups, and a rejected statement was followed by the next batch.
C24_Witness ==
    /\ pc = "done"
    /\ \E n, m \in DOMAIN sent :
          /\ n < m
          /\ sent[n].phase = "entity" /\ sent[m].phase = "entity"
          /\ sent[n].batch = 1 /\ sent[m].batch = 1
    /\ \E n \in DOMAIN sent :
          /\ sent[n].phase = "entity" /\ sent[n].batch = 2
    /\ \E n, m \in DOMAIN sent :
          /\ sent[n].phase = "relationship" /\ sent[n].batch = 1 /\ ~sent[n].ok
          /\ sent[m].phase = "relationship" /\ sent[m].batch = 2 /\ sent[m].ok

\* the key under which generate_type_mappings files the raw type value v
MappingKey(v) ==
    IF IsNa(v) \/ PyStrip(Str(v), Whitespace) = <<>> THEN <<>> ELSE CleanType(v)

\* C25: a row whose raw type value got a mapping entry is inserted under the
\* label that entry holds (and so under 'Entity' only if the entry says so).
C25_LoaderUsesMappingEntry ==
    \A p \in CreatedNodes :
        LET key == MappingKey(entities_df[nodes[p].id].type)
        IN  key \in DOMAIN type_to_label =>
                nodes[p].label = type_to_label[key]

\* the schema statements were sent after the mapping was generated
SchemaAfterMapping == entities_df # <<>> /\ schema_issued # {}

\* C26: when create_constraints_and_indexes runs after the mapping was
\* generated from the entity table, every node create_entities inserts from
\* that table is under a label the schema statements covered.
C26_SchemaCoversInsertedLabels ==
    SchemaAfterMapping =>
        \A p \in CreatedNodes :
            \E s \in schema_issued : s.label = nodes[p].label

\* C27: after create_constraints_and_indexes ran on a store without
\* constraints or indexes and no statement raised, every label of the label
\* set has a uniqueness constraint, a name index and a type index of its
\* own.
C27_EveryLabelHasItsSchema ==
    (SchemaAfterMapping /\ schema_failures = {}) =>
        \A l \in SchemaLabels :
            \A kd \in {"id_unique", "name_index", "type_index"} :
                \E e \in schema : e.kind = kd /\ e.label = l

\* C28: no relationship of the store comes from a relationship row whose
\* source or target is absent.
C28_AbsentEndpointCreatesNothing ==
    \A r \in rels :
        r.id \in DOMAIN rel_batch =>
            /\ ~IsNa(rel_batch[r.id].source)
            /\ ~IsNa(rel_batch[r.id].target)

\* the values of a list
Values(l) == {l[n] : n \in DOMAIN l}

\* C29: a call of generate_type_mappings on the values of the call before
\* it, in any order, leaves the mapping as it was, and after any call every
\* key of the mapping is the key of a value of that call.
C29_MappingDependsOnValueSet ==
    [][/\ (mpc # "init" /\ Values(entity_types') = Values(entity_types))
            => type_to_label' = type_to_label
       /\ \A k \in DOMAIN type_to_label' :
             \E v \in Values(entity_types') : MappingKey(v) = k]_vars

\* C29's case: a later call on two values with two keys, one of them the
\* empty key.
C29_Witness ==
    /\ mpc = "mapped_again"
    /\ entity_types = <<<<"b">>, NaN>>
    /\ DOMAIN type_to_label = {<<"b">>, <<>>}
    /\ type_to_label[<<>>] = UnknownLabel

\* the nodes clean_entities has removed
Removed == store_before \ store

\* C30: every node clean_entities removes had no relationship, carried no
\* predefined label and no 'unknown' label in any letter case, and was
\* removed after the user answered y; no node is added or changed.
C30_CleanerRules ==
    /\ store \subseteq store_before
    /\ \A n \in Removed :
          /\ ~n.linked
          /\ n.labels \cap predefined_types = {}
          /\ \A l \in n.labels : ~IsUnknown(l)
          /\ confirm = <<"y">>

====
